---- MODULE Spec2Model ----
(***************************************************************************)
(* Model of the extraction -> sanitization -> persistence pipeline of the  *)
(* personal-data toolkit: databases/helpers.py (get_supabase_client,       *)
(* save_data_to_json) and the five source scripts (browser history,        *)
(* calendar, gmail, imessage, whatsapp).                                   *)
(***************************************************************************)
EXTENDS Integers, Sequences, FiniteSets, TLC

(***************************************************************************)
(* Python str values.  A string is kept run-length encoded: a sequence of  *)
(* runs <<kind, count>>, adjacent runs of different kinds, counts > 0.     *)
(* kind "a" is an ASCII letter (1 UTF-8 byte), "." the period (1 byte),    *)
(* "e" a 2-byte character such as U+00E9, "w" a 3-byte character such as   *)
(* a CJK ideograph.  len(s) counts characters, len(s.encode("utf-8"))      *)
(* counts bytes, s[:n] cuts characters: all three are computed on runs, so *)
(* the program's limits 500, 1000 and 2000 are used as they are.           *)
(***************************************************************************)
Kinds == {"a", ".", "e", "w"}

\* UTF-8 width of one character of each kind.
Utf8Width(k) == CASE k = "a" -> 1 [] k = "." -> 1 [] k = "e" -> 2 [] k = "w" -> 3

\* Python None, where a str is expected (a run of a kind no string has).
None == << <<"None", 0>> >>

EmptyStr == <<>>

RECURSIVE StrLen(_)
\* len(s): the number of characters.
StrLen(s) == IF s = <<>> THEN 0 ELSE Head(s)[2] + StrLen(Tail(s))

RECURSIVE ByteLen(_)
\* len(s.encode("utf-8")): the number of UTF-8 bytes.
ByteLen(s) == IF s = <<>> THEN 0
              ELSE Utf8Width(Head(s)[1]) * Head(s)[2] + ByteLen(Tail(s))

RECURSIVE StrTake(_, _)
\* s[:n]: the first n characters (all of s when it has fewer).
StrTake(s, n) ==
    IF s = <<>> \/ n <= 0 THEN <<>>
    ELSE IF Head(s)[2] <= n
         THEN << Head(s) >> \o StrTake(Tail(s), n - Head(s)[2])
         ELSE << <<Head(s)[1], n>> >>

\* s + t: concatenation, merging the runs that meet.
StrConcat(s, t) ==
    IF s = <<>> THEN t
    ELSE IF t = <<>> THEN s
    ELSE IF s[Len(s)][1] = t[1][1]
         THEN SubSeq(s, 1, Len(s) - 1)
              \o << <<t[1][1], s[Len(s)][2] + t[1][2]>> >>
              \o Tail(t)
         ELSE s \o t

\* The literal "...".
Ellipsis == << <<".", 3>> >>

\* s.endswith("...")
EndsWithEllipsis(s) == s # <<>> /\ s[Len(s)][1] = "." /\ s[Len(s)][2] >= 3

\* p is s[:n] for some n.
IsStrPrefix(p, s) == p = StrTake(s, StrLen(p))

\* Python truthiness of a str-or-None value: `x or ""`.
OrEmpty(x) == IF x = None \/ x = EmptyStr THEN EmptyStr ELSE x

\* A string of n characters of one kind.
Rep(k, n) == IF n <= 0 THEN <<>> ELSE << <<k, n>> >>

(***************************************************************************)
(* The truncation every save_*_to_supabase applies to a bounded field:     *)
(*     if len(x.encode("utf-8")) > L:                                      *)
(*         x = x[:L] + "..." if len(x) > L else x                          *)
(***************************************************************************)
Truncate(x, L) ==
    IF ByteLen(x) > L
    THEN (IF StrLen(x) > L THEN StrConcat(StrTake(x, L), Ellipsis) ELSE x)
    ELSE x

\* The limits written in the source.
UrlLimit == 2000
TitleLimit == 500
DescriptionLimit == 1000
SummaryLimit == 500
LocationLimit == 500
TextLimit == 1000
ContactLimit == 500
FromNameLimit == 500
ChatNameLimit == 500


\* Python None for the fields kept as plain tokens (ids, time stamps, objects).
PyNone == "None"

\* dict.get(key, default)
Get(d, key, default) == IF key \in DOMAIN d THEN d[key] ELSE default

(***************************************************************************)
(* The store entries built by the save_*_to_supabase functions.  `t` is    *)
(* datetime.now() at the moment the entry is built.                        *)
(***************************************************************************)
\* save_browser_history_to_supabase, the loop body.
BrowserDbEntry(entry, t) ==
    [url |-> Truncate(entry.url, UrlLimit),
     title |-> Truncate(OrEmpty(entry.title), TitleLimit),
     visit_count |-> entry.visit_count,
     timestamp |-> entry.timestamp,
     browser |-> "Google Chrome",
     extraction_date |-> t]

\* Python truthiness of a dict-or-list-or-None token: {} and [] are falsy.
Falsy(x) == x \in {PyNone, "{}", "[]"}

\* save_calendar_events_to_supabase, the loop body.
CalendarDbEntry(event) ==
    [id |-> event.id,
     status |-> event.status,
     created_at |-> event.created,
     updated_at |-> event.updated,
     summary |-> Truncate(OrEmpty(event.summary), SummaryLimit),
     description |-> Truncate(OrEmpty(event.description), DescriptionLimit),
     location |-> Truncate(OrEmpty(event.location), LocationLimit),
     creator |-> IF Falsy(event.creator) THEN PyNone ELSE event.creator,
     organizer |-> IF Falsy(event.organizer) THEN PyNone ELSE event.organizer,
     start_time |-> event.start,
     end_time |-> event.end,
     attendees |-> IF Falsy(event.attendees) THEN PyNone ELSE event.attendees,
     recurrence |-> IF Falsy(event.recurrence) THEN PyNone ELSE event.recurrence,
     html_link |-> event.html_link,
     event_type |-> event.event_type]

\* save_imessages_to_supabase, the loop body.
IMessageDbEntry(msg) ==
    [contact |-> Truncate(OrEmpty(msg.contact), ContactLimit),
     text |-> Truncate(OrEmpty(msg.text), TextLimit),
     service |-> msg.service,
     account |-> msg.account,
     is_from_me |-> msg.is_from_me,
     timestamp |-> msg.timestamp]

\* save_whatsapp_messages_to_supabase, the first loop's body.
WhatsAppDbEntry(msg) ==
    [id |-> Get(msg, "id", PyNone),
     timestamp |-> Get(msg, "timestamp", PyNone),
     from_jid |-> Get(msg, "from_jid", PyNone),
     from_name |-> Truncate(OrEmpty(Get(msg, "from_name", EmptyStr)), FromNameLimit),
     chat_jid |-> Get(msg, "chat_jid", PyNone),
     chat_name |-> Truncate(OrEmpty(Get(msg, "chat_name", EmptyStr)), ChatNameLimit),
     message_type |-> Get(msg, "message_type", PyNone),
     text |-> Truncate(OrEmpty(Get(msg, "text", EmptyStr)), TextLimit),
     is_from_me |-> Get(msg, "is_from_me", FALSE),
     is_group |-> Get(msg, "is_group", FALSE)]

\* save_email_to_supabase: the entry built from one email.
EmailDbEntry(email_data) ==
    [id |-> email_data.id,
     thread_id |-> email_data.thread_id,
     label_ids |-> email_data.label_ids,
     snippet |-> email_data.snippet,
     history_id |-> email_data.history_id,
     internal_date |-> IF email_data.internal_date \in {PyNone, ""}
                       THEN PyNone ELSE email_data.internal_date,
     headers |-> email_data.headers,
     mime_type |-> email_data.mime_type,
     body_text |-> email_data.body.text,
     body_html |-> email_data.body.html,
     saved_at |-> email_data.saved_at]

\* The size-bounded fields of each source's store entry, with their limits.
Sources == {"browser", "calendar", "email", "imessage", "whatsapp"}

BoundedFields(s) ==
    CASE s = "browser" -> {<<"url", UrlLimit>>, <<"title", TitleLimit>>}
      [] s = "calendar" -> {<<"summary", SummaryLimit>>,
                            <<"description", DescriptionLimit>>,
                            <<"location", LocationLimit>>}
      [] s = "imessage" -> {<<"contact", ContactLimit>>, <<"text", TextLimit>>}
      [] s = "whatsapp" -> {<<"from_name", FromNameLimit>>,
                            <<"chat_name", ChatNameLimit>>,
                            <<"text", TextLimit>>}
      [] s = "email" -> {}


(***************************************************************************)
(* gmail.py: decoding and the walk of a message's part tree.  Payload      *)
(* data and decoded text are plain tokens.  Base64Table holds the          *)
(* base64url strings that decode to UTF-8 text; any other data makes       *)
(* urlsafe_b64decode or .decode("utf-8") raise, and the except branch      *)
(* passes the encoded string through.                                      *)
(***************************************************************************)
Base64Table ==
    [d \in {"aGk=", "Ynll", "PGI-aGk8L2I-", "PGk-YnllPC9pPg=="} |->
        CASE d = "aGk=" -> "hi"
          [] d = "Ynll" -> "bye"
          [] d = "PGI-aGk8L2I-" -> "<b>hi</b>"
          [] d = "PGk-YnllPC9pPg==" -> "<i>bye</i>"]

\* decode_email_content
decode_email_content(data) ==
    IF data \in DOMAIN Base64Table THEN Base64Table[data] ELSE data

\* The two assignments of extract_parts, as a first-match-wins variant.
SetBodyFirstWins(body_data, key, value) ==
    IF body_data[key] = "" THEN [body_data EXCEPT ![key] = value] ELSE body_data

\* body_data[key] = value
SetBody(body_data, key, value) == [body_data EXCEPT ![key] = value]

\* The loop body without the recursive call on a part's own parts.
extract_part_shallow(part, body_data) ==
    LET mime_type == Get(part, "mimeType", "") IN
    IF mime_type = "text/plain" /\ "data" \in DOMAIN part.body
    THEN SetBody(body_data, "text", decode_email_content(part.body.data))
    ELSE IF mime_type = "text/html" /\ "data" \in DOMAIN part.body
    THEN SetBody(body_data, "html", decode_email_content(part.body.data))
    ELSE body_data

RECURSIVE extract_parts(_, _)
\* One iteration of extract_parts' loop: the part's effect on body_data.
extract_part(part, body_data) ==
    LET mime_type == Get(part, "mimeType", "") IN
    IF mime_type = "text/plain"
    THEN (IF "data" \in DOMAIN part.body
          THEN SetBody(body_data, "text", decode_email_content(part.body.data))
          ELSE body_data)
    ELSE IF mime_type = "text/html"
    THEN (IF "data" \in DOMAIN part.body
          THEN SetBody(body_data, "html", decode_email_content(part.body.data))
          ELSE body_data)
    ELSE IF "parts" \in DOMAIN part
    THEN extract_parts(part.parts, body_data)
    ELSE body_data

\* extract_email_data.extract_parts: the loop over parts, in order.
extract_parts(parts, body_data) ==
    IF parts = <<>> THEN body_data
    ELSE extract_parts(Tail(parts), extract_part(Head(parts), body_data))

\* extract_email_data, "Handle different payload structures".
extract_body(payload) ==
    LET body_data == [text |-> "", html |-> ""]
        body == Get(payload, "body", [size |-> 0]) IN
    IF "parts" \in DOMAIN payload
    THEN extract_parts(payload.parts, body_data)
    ELSE IF Get(payload, "mimeType", PyNone) = "text/plain" /\ "data" \in DOMAIN body
    THEN SetBody(body_data, "text", decode_email_content(payload.body.data))
    ELSE IF Get(payload, "mimeType", PyNone) = "text/html" /\ "data" \in DOMAIN body
    THEN SetBody(body_data, "html", decode_email_content(payload.body.data))
    ELSE body_data


(***************************************************************************)
(* Bounds of the model and the sample inputs of the pipeline.              *)
(***************************************************************************)
\* The longest extracted batch (beyond the 100-message cap for imessage).
MaxBatch == 2
\* The number of runs of the same source in one behaviour.
MaxRuns == 2
\* The clock (seconds) runs from 0 to MaxClock.
MaxClock == 1
\* How far around a limit the lengths of the sanitization inputs go.
Over == 1
\* The widest list of parts at one level of a message's part tree.
MaxParts == 2
\* The most rows of the urls table of the history database.
MaxRows == 3

\* imessages[:100]
MessageCap == 100

SeqsUpTo(S, n) == UNION {[1..k -> S] : k \in 0..n}

\* Sample values of a field bounded by L: short, one character too long,
\* and within L characters but beyond L bytes.
ShortStr == Rep("a", 5)
LongStr(L) == Rep("a", L + 1)
WideStr(L) == Rep("w", L)

\* Rows of Chrome's urls table: url, title, visit_count, last_visit_time.
ChromeRows ==
    {[url |-> ShortStr, title |-> None, visit_count |-> 1, last_visit_time |-> 0],
     [url |-> LongStr(UrlLimit), title |-> ShortStr, visit_count |-> 2,
      last_visit_time |-> 150001],
     [url |-> WideStr(UrlLimit), title |-> LongStr(TitleLimit), visit_count |-> 3,
      last_visit_time |-> 150002]}

\* Events as the Calendar API returns them (absent keys are absent).
ApiEvents ==
    {[id |-> "e1", status |-> "confirmed", created |-> "c1", updated |-> "u1",
      summary |-> LongStr(SummaryLimit), description |-> WideStr(DescriptionLimit),
      location |-> ShortStr, creator |-> "{creator}", organizer |-> "{organizer}",
      start |-> "{start}", end |-> "{end}", attendees |-> "[attendee]",
      recurrence |-> "[rule]", htmlLink |-> "link", eventType |-> "default"],
     [id |-> "e2", status |-> "confirmed"]}

\* Messages as the Gmail API returns them for format="full"; "http_error"
\* stands for a get() that raises HttpError.
ApiMessages ==
    {[id |-> "m1", threadId |-> "t1", labelIds |-> "[INBOX]", snippet |-> "hi",
      historyId |-> "h1", internalDate |-> "1700000000000",
      payload |-> [mimeType |-> "multipart/alternative",
                   headers |-> << [name |-> "Subject", value |-> "s"],
                                  [name |-> "X-Mailer", value |-> "x"] >>,
                   parts |-> << [mimeType |-> "text/plain",
                                 body |-> [size |-> 2, data |-> "aGk="]],
                                [mimeType |-> "text/html",
                                 body |-> [size |-> 9, data |-> "PGI-aGk8L2I-"]] >>]],
     [id |-> "m2", http_error |-> TRUE],
     [id |-> "m3", payload |-> [mimeType |-> "text/plain",
                                body |-> [size |-> 3, data |-> "Ynll"]]],
     [id |-> "m4", threadId |-> "t1", snippet |-> "yo",
      payload |-> [mimeType |-> "text/html",
                   body |-> [size |-> 9, data |-> "PGI-aGk8L2I-"]]]}

\* Tuples of imessage_reader: (user_id, message, service, account,
\* is_from_me, timestamp); the i-th message of the chat database.
ReaderTuple(i) ==
    << IF i % 2 = 1 THEN ShortStr ELSE None,
       IF i % 2 = 1 THEN LongStr(TextLimit) ELSE WideStr(TextLimit),
       "iMessage", "", i % 2, i >>

\* Records of the export file the Go program writes.
ExportRecords ==
    {[id |-> "X", timestamp |-> "ts1", from_jid |-> "j1", from_name |-> ShortStr,
      chat_jid |-> "c1", chat_name |-> WideStr(ChatNameLimit), message_type |-> "text",
      text |-> LongStr(TextLimit), is_from_me |-> FALSE, is_group |-> FALSE],
     [id |-> "X", timestamp |-> "ts2", from_jid |-> "j2", from_name |-> ShortStr,
      chat_jid |-> "c1", chat_name |-> ShortStr, message_type |-> "text",
      text |-> ShortStr, is_from_me |-> TRUE, is_group |-> FALSE],
     [timestamp |-> "ts3", text |-> ShortStr],
     [id |-> PyNone, timestamp |-> "ts4", text |-> ShortStr]}


(***************************************************************************)
(* Extraction and normalization, per source.                               *)
(***************************************************************************)
\* 11644473600 seconds between 1601-01-01 and 1970-01-01, counted in days
\* (the model's last_visit_time is in days, not microseconds).
ChromeEpochDays == 134774

\* A datetime value, or <<>> for Python None.
NoTime == <<>>

\* chrome_time_to_datetime
chrome_time_to_datetime(chrome_time) ==
    IF chrome_time = 0 THEN NoTime ELSE << chrome_time - ChromeEpochDays >>

RECURSIVE OrderByLastVisitDesc(_)
\* ORDER BY urls.last_visit_time DESC
OrderByLastVisitDesc(rows) ==
    IF rows = {} THEN <<>>
    ELSE LET r == CHOOSE x \in rows : \A y \in rows : y.last_visit_time <= x.last_visit_time
         IN << r >> \o OrderByLastVisitDesc(rows \ {r})

\* The query without its WHERE clause.
QueryHistoryUnfiltered(db) ==
    OrderByLastVisitDesc({db[i] : i \in 1..Len(db)})

\* The query of extract_chrome_history on the rows of the urls table.
QueryHistory(db) ==
    OrderByLastVisitDesc({db[i] : i \in {j \in 1..Len(db) : db[j].last_visit_time > 0}})

\* extract_chrome_history, "Convert to structured data", for one row.
HistoryEntry(row) ==
    LET timestamp_dt == IF row.last_visit_time # 0
                        THEN chrome_time_to_datetime(row.last_visit_time)
                        ELSE NoTime
    IN [url |-> row.url,
        title |-> OrEmpty(row.title),
        visit_count |-> row.visit_count,
        timestamp |-> timestamp_dt]

\* extract_event_data
extract_event_data(event) ==
    [id |-> Get(event, "id", PyNone),
     status |-> Get(event, "status", PyNone),
     created |-> Get(event, "created", PyNone),
     updated |-> Get(event, "updated", PyNone),
     summary |-> Get(event, "summary", Rep("a", 8)),   \* "No title"
     description |-> Get(event, "description", EmptyStr),
     location |-> Get(event, "location", EmptyStr),
     creator |-> Get(event, "creator", "{}"),
     organizer |-> Get(event, "organizer", "{}"),
     start |-> Get(event, "start", "{}"),
     end |-> Get(event, "end", "{}"),
     attendees |-> Get(event, "attendees", "[]"),
     recurrence |-> Get(event, "recurrence", "[]"),
     html_link |-> Get(event, "htmlLink", ""),
     event_type |-> Get(event, "eventType", "default")]

\* get_recent_events, the loop body: the event's data with saved_at added.
CalendarRecord(event, t) ==
    LET d == extract_event_data(event) IN
    [k \in DOMAIN d \cup {"saved_at"} |-> IF k = "saved_at" THEN t ELSE d[k]]

\* name.lower() on the header names of the samples.
Lower(name) ==
    CASE name = "Subject" -> "subject" [] name = "From" -> "from"
      [] name = "X-Mailer" -> "x-mailer" [] OTHER -> name

AllowedHeaders == {"from", "to", "subject", "date", "cc", "bcc", "reply-to"}

\* extract_email_data, "Extract important headers": a later header of the
\* same lower-cased name overwrites an earlier one.
HeaderData(headers) ==
    LET kept == {i \in 1..Len(headers) : Lower(headers[i].name) \in AllowedHeaders}
        last(n) == CHOOSE i \in kept : Lower(headers[i].name) = n
                     /\ \A j \in kept : Lower(headers[j].name) = n => j <= i
    IN [n \in {Lower(headers[i].name) : i \in kept} |-> headers[last(n)].value]

\* extract_email_data raises something other than HttpError: message["id"],
\* message["threadId"] or message["payload"] is missing (KeyError).
EmailKeyError(message) ==
    ~ ({"id", "threadId", "payload"} \subseteq DOMAIN message)

\* extract_email_data returns None: get(...).execute() raised HttpError.
EmailHttpError(message) == "http_error" \in DOMAIN message

\* extract_email_data, the value returned for a message that is fetched.
extract_email_data(message) ==
    [id |-> message.id,
     thread_id |-> message.threadId,
     label_ids |-> Get(message, "labelIds", "[]"),
     snippet |-> Get(message, "snippet", ""),
     history_id |-> Get(message, "historyId", PyNone),
     internal_date |-> Get(message, "internalDate", PyNone),
     payload |-> "{}",
     headers |-> HeaderData(Get(message.payload, "headers", <<>>)),
     mime_type |-> Get(message.payload, "mimeType", ""),
     body |-> extract_body(message.payload)]

\* get_recent_emails, the loop body: the email's data with saved_at added.
EmailRecord(message, t) ==
    LET d == extract_email_data(message) IN
    [k \in DOMAIN d \cup {"saved_at"} |-> IF k = "saved_at" THEN t ELSE d[k]]

RECURSIVE FetchEmails(_, _)
\* get_recent_emails, "Process each message": all_emails, or the fact that
\* an exception other than HttpError left the loop.
FetchEmails(messages, t) ==
    IF messages = <<>> THEN [raised |-> FALSE, all_emails |-> <<>>]
    ELSE IF EmailHttpError(Head(messages)) THEN FetchEmails(Tail(messages), t)
    ELSE IF EmailKeyError(Head(messages)) THEN [raised |-> TRUE, all_emails |-> <<>>]
    ELSE LET rest == FetchEmails(Tail(messages), t) IN
         [raised |-> rest.raised,
          all_emails |-> IF rest.raised THEN <<>>
                         ELSE << EmailRecord(Head(messages), t) >> \o rest.all_emails]

\* extract_imessage_data, "Convert to more structured format", one tuple.
StructuredMessage(msg) ==
    [contact |-> IF OrEmpty(msg[1]) # EmptyStr THEN msg[1] ELSE Rep("a", 7),  \* "Unknown"
     text |-> IF OrEmpty(msg[2]) # EmptyStr THEN msg[2] ELSE EmptyStr,
     service |-> IF msg[3] \notin {PyNone, ""} THEN msg[3] ELSE "Unknown",
     account |-> IF msg[4] \notin {PyNone, ""} THEN msg[4] ELSE "",
     is_from_me |-> IF Len(msg) > 4 THEN msg[5] # 0 ELSE FALSE,
     timestamp |-> IF Len(msg) > 5 THEN msg[6] ELSE 0]


(***************************************************************************)
(* The state of the pipeline.                                              *)
(***************************************************************************)
VARIABLES
    src,          \* the source this behaviour runs
    env,          \* SUPABASE_AVAILABLE and the three environment variables
    source,       \* what the source holds: [status, items]
    pc,           \* the position of the run
    run,          \* the number of the run
    batch,        \* the extracted records (history_entries, all_emails, ...)
    client,       \* supabase_client: "None" or "client"
    remote_ops,   \* the calls made on the store in this run, in order
    accepted,     \* len(result.data) of the last write, -1 before any
    successful_saves, \* save_emails_data's counter
    table,        \* the rows of the source's table in the store
    files,        \* the local files: [name, data, mtime]
    written,      \* the names of the files written in this run, in order
    file_prefix,  \* the file_prefix argument of the pending save_data_to_json
    to_save,      \* the data argument of the pending save_data_to_json
    temp_copies,  \* the temporary copies of the history database on disk
    now,          \* datetime.now(), in seconds
    outcome,      \* what the run reported
    fn, arg, out  \* a pure function under check, its input and its output

pipe_vars == <<src, env, source, pc, run, batch, client, remote_ops, accepted,
               successful_saves,
               table, files, written, file_prefix, to_save, temp_copies, now,
               outcome>>
fn_vars == <<fn, arg, out>>
vars == <<pipe_vars, fn_vars>>

\* The environments: os.getenv gives None for an unset variable.
EnvValues == {PyNone, "", "set"}

Envs == [SUPABASE_AVAILABLE : BOOLEAN, SUPABASE_URL : EnvValues,
         SUPABASE_ANON_KEY : EnvValues, SUPABASE_KEY : EnvValues]

\* The environments of the pipeline runs: all set, no URL, the key under
\* its second name only, no key under either name.
PipelineEnvs ==
    {[SUPABASE_AVAILABLE |-> TRUE, SUPABASE_URL |-> "set",
      SUPABASE_ANON_KEY |-> "set", SUPABASE_KEY |-> PyNone],
     [SUPABASE_AVAILABLE |-> TRUE, SUPABASE_URL |-> PyNone,
      SUPABASE_ANON_KEY |-> "set", SUPABASE_KEY |-> PyNone],
     [SUPABASE_AVAILABLE |-> TRUE, SUPABASE_URL |-> "set",
      SUPABASE_ANON_KEY |-> "", SUPABASE_KEY |-> "set"],
     [SUPABASE_AVAILABLE |-> TRUE, SUPABASE_URL |-> "set",
      SUPABASE_ANON_KEY |-> PyNone, SUPABASE_KEY |-> ""]}

\* Sequences without repetition.
InjSeqsUpTo(S, n) ==
    {q \in SeqsUpTo(S, n) : \A i, j \in 1..Len(q) : i # j => q[i] # q[j]}

\* What a source can hold.  status "absent": the underlying file, export
\* or credential is missing; "fault": reading it raises; "ok": items.
SourceContents(s) ==
    {[status |-> "absent", items |-> <<>>], [status |-> "fault", items |-> <<>>]}
    \cup
    {[status |-> "ok", items |-> q] : q \in
        CASE s = "browser" -> InjSeqsUpTo(ChromeRows, MaxRows)
          [] s = "calendar" -> SeqsUpTo(ApiEvents, MaxBatch)
          [] s = "email" -> InjSeqsUpTo(ApiMessages, MaxBatch)
          [] s = "imessage" ->
                {[i \in 1..n |-> ReaderTuple(i)] :
                    n \in (0..1) \cup (MessageCap .. MessageCap + MaxBatch - 1)}
          [] s = "whatsapp" -> SeqsUpTo(ExportRecords, MaxBatch)}

PipelineStart ==
    /\ pc = "Idle"
    /\ run = 1
    /\ batch = <<>>
    /\ client = "None"
    /\ remote_ops = <<>>
    /\ accepted = -1
    /\ successful_saves = 0
    /\ table = <<>>
    /\ files = {}
    /\ written = <<>>
    /\ file_prefix = ""
    /\ to_save = <<>>
    /\ temp_copies = 0
    /\ now = 0
    /\ outcome = "pending"

FnIdle == fn = "none" /\ arg = <<>> /\ out = <<>>

Init ==
    /\ src \in Sources
    /\ env \in PipelineEnvs
    /\ source \in SourceContents(src)
    /\ PipelineStart
    /\ FnIdle


(***************************************************************************)
(* The remote store, as the scripts use it: insert, upsert and a bounded   *)
(* select on one table.  calendar_events, gmail_emails and                 *)
(* whatsapp_messages have id TEXT PRIMARY KEY; browser_history and         *)
(* imessages have a generated BIGSERIAL key.                               *)
(***************************************************************************)
PrimaryKeyed(s) == s \in {"calendar", "email", "whatsapp"}

Ids(rows) == {rows[i].id : i \in 1..Len(rows)}

DistinctIds(rows) == \A i, j \in 1..Len(rows) : i # j => rows[i].id # rows[j].id

\* The store can accept insert(rows): no key is null, repeated or present.
InsertAllowed(s, tbl, rows) ==
    PrimaryKeyed(s) =>
        /\ PyNone \notin Ids(rows)
        /\ DistinctIds(rows)
        /\ Ids(rows) \cap Ids(tbl) = {}

\* The store can accept upsert(rows): no key is null or repeated in rows.
UpsertAllowed(s, rows) ==
    PrimaryKeyed(s) => PyNone \notin Ids(rows) /\ DistinctIds(rows)

\* The table after upsert(rows): a row with a present id is overwritten.
Upserted(tbl, rows) ==
    [i \in 1..Len(tbl) |->
        IF tbl[i].id \in Ids(rows)
        THEN rows[CHOOSE j \in 1..Len(rows) : rows[j].id = tbl[i].id]
        ELSE tbl[i]]
    \o SelectSeq(rows, LAMBDA r : r.id \notin Ids(tbl))

\* An insert that skips the rows the table already holds.
InsertedIfNew(tbl, rows) ==
    tbl \o SelectSeq(rows, LAMBDA r : \A i \in 1..Len(tbl) : tbl[i] # r)

\* The table after insert(rows): the rows are appended.
Inserted(tbl, rows) == tbl \o rows

\* The write each script's save function calls on its table.
StoreCall(s) == IF s = "whatsapp" THEN "upsert" ELSE "insert"

\* How many of n submitted rows the store can report as accepted when it
\* neither raises nor reports all of them: none, one, or all but one.
FewerThan(n) == {k \in {0, 1, n - 1} : 0 <= k /\ k < n}

(***************************************************************************)
(* The steps of a run.                                                     *)
(***************************************************************************)
\* An exception leaves the script's functions.  get_recent_emails wraps
\* its whole body in try/except Exception and prints; the other four
\* scripts have no handler, so the exception reaches the caller.
Propagate ==
    IF src = "email"
    THEN pc' = "Done" /\ outcome' = "error_logged"
    ELSE pc' = "Raised" /\ outcome' = "raised"

\* The run function is called.
StartRun ==
    /\ pc = "Idle"
    /\ pc' = "Extracting"
    /\ UNCHANGED <<src, env, source, run, batch, client, remote_ops, accepted,
                   successful_saves, table, files, written, file_prefix, to_save,
                   temp_copies, now, outcome, fn_vars>>

\* The extraction returned nothing to persist: the run returns None.
NoData ==
    /\ pc' = "Done"
    /\ outcome' = "no_data"
    /\ batch' = <<>>

\* extract_chrome_history, called by save_browser_history.  The temporary
\* file is made once the database is found and unlinked by the last
\* statements; copy2, connect, execute or fetchall raising skips them.
extract_chrome_history ==
    /\ pc = "Extracting" /\ src = "browser"
    /\ \/ /\ source.status = "absent"
          /\ NoData
          /\ UNCHANGED temp_copies
       \/ /\ source.status = "fault"
          /\ temp_copies' = temp_copies + 1
          /\ Propagate
          /\ UNCHANGED batch
       \/ /\ source.status = "ok"
          /\ LET results == QueryHistory(source.items) IN
             batch' = [i \in 1..Len(results) |-> HistoryEntry(results[i])]
          /\ pc' = "Configuring"
          /\ UNCHANGED <<temp_copies, outcome>>
    /\ UNCHANGED <<src, env, source, run, client, remote_ops, accepted,
                   successful_saves, table, files, written, file_prefix, to_save,
                   now, fn_vars>>

\* get_recent_events, called by save_calendar_events: authenticate_calendar
\* raises without a credential, events().list().execute() may raise, and
\* save_calendar_events returns None for an empty list.
get_recent_events ==
    /\ pc = "Extracting" /\ src = "calendar"
    /\ \/ /\ source.status \in {"absent", "fault"}
          /\ Propagate
          /\ UNCHANGED batch
       \/ /\ source.status = "ok" /\ source.items = <<>>
          /\ NoData
       \/ /\ source.status = "ok" /\ source.items # <<>>
          /\ batch' = [i \in 1..Len(source.items) |-> CalendarRecord(source.items[i], now)]
          /\ pc' = "Configuring"
          /\ UNCHANGED outcome
    /\ UNCHANGED <<src, env, source, run, client, remote_ops, accepted,
                   successful_saves, table, files, written, file_prefix, to_save,
                   temp_copies, now, fn_vars>>

\* get_recent_emails up to the call of save_emails_data: authenticate_gmail,
\* messages().list(), and the loop of extract_email_data.
get_recent_emails ==
    /\ pc = "Extracting" /\ src = "email"
    /\ \/ /\ source.status \in {"absent", "fault"}
          /\ Propagate
          /\ UNCHANGED batch
       \/ /\ source.status = "ok"
          /\ LET got == FetchEmails(source.items, now) IN
             \/ /\ got.raised
                /\ Propagate
                /\ UNCHANGED batch
             \/ /\ ~got.raised /\ got.all_emails = <<>>
                /\ NoData
             \/ /\ ~got.raised /\ got.all_emails # <<>>
                /\ batch' = got.all_emails
                /\ pc' = "Configuring"
                /\ UNCHANGED outcome
    /\ UNCHANGED <<src, env, source, run, client, remote_ops, accepted,
                   successful_saves, table, files, written, file_prefix, to_save,
                   temp_copies, now, fn_vars>>

\* extract_imessage_data, called by save_imessages.
extract_imessage_data ==
    /\ pc = "Extracting" /\ src = "imessage"
    /\ \/ /\ source.status = "absent"
          /\ NoData
       \/ /\ source.status = "fault"
          /\ Propagate
          /\ UNCHANGED batch
       \/ /\ source.status = "ok"
          /\ batch' = [i \in 1..Len(source.items) |-> StructuredMessage(source.items[i])]
          /\ pc' = "Configuring"
          /\ UNCHANGED outcome
    /\ UNCHANGED <<src, env, source, run, client, remote_ops, accepted,
                   successful_saves, table, files, written, file_prefix, to_save,
                   temp_copies, now, fn_vars>>

\* The files glob("whatsapp/data/whatsapp_messages_*.json") matches among
\* those save_data_to_json wrote.
MatchesPattern(f) ==
    /\ f.name.data_dir = "whatsapp/data"
    /\ f.name.file_prefix = ""
    /\ f.name.filename_prefix = "whatsapp_messages"

\* The export file of the Go program, written before the first run.
ExportFile == [name |-> "export", data |-> source.items, mtime |-> -1]

\* find_most_recent_whatsapp_file: the candidates, as [data, mtime].
WhatsAppFiles ==
    {[data |-> f.data, mtime |-> f.mtime] : f \in {g \in files : MatchesPattern(g)}}
    \cup (IF source.status = "absent" THEN {}
          ELSE {[data |-> ExportFile.data, mtime |-> ExportFile.mtime]})

\* upload_whatsapp_messages up to the call of save_whatsapp_messages_data:
\* find_most_recent_whatsapp_file and load_whatsapp_messages (json.load
\* raises on the export file of a source in status "fault").
load_whatsapp_messages ==
    /\ pc = "Extracting" /\ src = "whatsapp"
    /\ \/ /\ WhatsAppFiles = {}
          /\ NoData
       \/ \E f \in WhatsAppFiles :
            /\ \A g \in WhatsAppFiles : g.mtime <= f.mtime
            /\ \/ /\ f.mtime = -1 /\ source.status = "fault"
                  /\ Propagate
                  /\ UNCHANGED batch
               \/ /\ ~(f.mtime = -1 /\ source.status = "fault")
                  /\ f.data = <<>>
                  /\ NoData
               \/ /\ ~(f.mtime = -1 /\ source.status = "fault")
                  /\ f.data # <<>>
                  /\ batch' = f.data
                  /\ pc' = "Configuring"
                  /\ UNCHANGED outcome
    /\ UNCHANGED <<src, env, source, run, client, remote_ops, accepted,
                   successful_saves, table, files, written, file_prefix, to_save,
                   temp_copies, now, fn_vars>>

\* os.getenv("SUPABASE_ANON_KEY") or os.getenv("SUPABASE_KEY")
EnvKey(e) ==
    IF e.SUPABASE_ANON_KEY \notin {PyNone, ""} THEN e.SUPABASE_ANON_KEY
    ELSE e.SUPABASE_KEY

\* A configuration test that looks at the URL alone.
NotConfiguredUrlOnly(e) ==
    \/ ~e.SUPABASE_AVAILABLE
    \/ e.SUPABASE_URL \in {PyNone, ""}

\* get_supabase_client returns None before any call on the store.
NotConfigured(e) ==
    \/ ~e.SUPABASE_AVAILABLE
    \/ e.SUPABASE_URL \in {PyNone, ""}
    \/ EnvKey(e) \in {PyNone, ""}

\* get_supabase_client(table_name), called first by every save_*_data.
\* create_client and the validation read each return or raise; nothing
\* catches what they raise.
get_supabase_client ==
    /\ pc = "Configuring"
    /\ \/ /\ NotConfigured(env)
          /\ client' = "None"
          /\ pc' = "WriteLocal"
          /\ file_prefix' = ""
          /\ to_save' = batch
          /\ UNCHANGED <<remote_ops, outcome>>
       \/ /\ ~NotConfigured(env)
          /\ \E created \in BOOLEAN, read \in BOOLEAN :
                IF ~created
                THEN /\ remote_ops' = Append(remote_ops, <<"create_client", <<>>>>)
                     /\ Propagate
                     /\ UNCHANGED <<client, file_prefix, to_save>>
                ELSE IF ~read
                THEN /\ remote_ops' = remote_ops \o << <<"create_client", <<>>>>,
                                                       <<"select", <<>>>> >>
                     /\ Propagate
                     /\ UNCHANGED <<client, file_prefix, to_save>>
                ELSE /\ remote_ops' = remote_ops \o << <<"create_client", <<>>>>,
                                                       <<"select", <<>>>> >>
                     /\ client' = "client"
                     /\ pc' = "Persisting"
                     /\ UNCHANGED <<outcome, file_prefix, to_save>>
    /\ UNCHANGED <<src, env, source, run, batch, accepted, successful_saves, table,
                   files, written, temp_copies, now, fn_vars>>

\* The fallback that hands the entries built for the store, and not the
\* extracted records, to save_data_to_json.
AfterWriteSavesEntries(n) ==
    /\ accepted' = n
    /\ IF n > 0
       THEN pc' = "Done" /\ outcome' = "remote_success"
            /\ UNCHANGED <<file_prefix, to_save>>
       ELSE pc' = "WriteLocal" /\ file_prefix' = "failed_"
            /\ to_save' = remote_ops'[Len(remote_ops')][2]
            /\ UNCHANGED outcome

\* The test `if result`: any result that came back counts as success.
AfterWriteAnyResult(n) ==
    /\ accepted' = n
    /\ pc' = "Done" /\ outcome' = "remote_success"
    /\ UNCHANGED <<file_prefix, to_save>>

\* A write without rows is tried again instead of falling back.
AfterWriteRetry(n) ==
    /\ accepted' = n
    /\ IF n > 0
       THEN pc' = "Done" /\ outcome' = "remote_success"
       ELSE pc' = "Persisting" /\ UNCHANGED outcome
    /\ UNCHANGED <<file_prefix, to_save>>

\* The fallback that passes no file_prefix to save_data_to_json.
AfterWriteNoPrefix(n) ==
    /\ accepted' = n
    /\ IF n > 0
       THEN pc' = "Done" /\ outcome' = "remote_success"
            /\ UNCHANGED <<file_prefix, to_save>>
       ELSE pc' = "WriteLocal" /\ file_prefix' = "" /\ to_save' = batch
            /\ UNCHANGED outcome

\* What save_*_data does with the result of the one batch write:
\* `if result and result.data` reports success, else falls back to JSON.
AfterWrite(n) ==
    /\ accepted' = n
    /\ IF n > 0
       THEN pc' = "Done" /\ outcome' = "remote_success"
            /\ UNCHANGED <<file_prefix, to_save>>
       ELSE pc' = "WriteLocal" /\ file_prefix' = "failed_" /\ to_save' = batch
            /\ UNCHANGED outcome

\* table(...).insert(rows).execute() or .upsert(rows).execute() on the
\* source's table, followed by the caller's test of the result.
BatchWrite(op, rows) ==
    /\ remote_ops' = Append(remote_ops, <<op, rows>>)
    /\ \/ /\ Propagate
          /\ UNCHANGED <<table, accepted, file_prefix, to_save>>
       \/ /\ IF op = "insert" THEN InsertAllowed(src, table, rows)
                              ELSE UpsertAllowed(src, rows)
          /\ \/ /\ table' = IF op = "insert" THEN Inserted(table, rows)
                                             ELSE Upserted(table, rows)
                /\ AfterWrite(Len(rows))
             \/ \E k \in FewerThan(Len(rows)) :
                /\ table' = IF op = "insert" THEN Inserted(table, SubSeq(rows, 1, k))
                                             ELSE Upserted(table, SubSeq(rows, 1, k))
                /\ AfterWrite(k)

\* save_browser_history_to_supabase and the test in save_browser_history_data.
save_browser_history_to_supabase ==
    /\ pc = "Persisting" /\ src = "browser"
    /\ BatchWrite(StoreCall(src), [i \in 1..Len(batch) |-> BrowserDbEntry(batch[i], now)])
    /\ UNCHANGED <<src, env, source, run, batch, client, successful_saves, files,
                   written, temp_copies, now, fn_vars>>

\* save_calendar_events_to_supabase and the test in save_calendar_events_data.
save_calendar_events_to_supabase ==
    /\ pc = "Persisting" /\ src = "calendar"
    /\ BatchWrite(StoreCall(src), [i \in 1..Len(batch) |-> CalendarDbEntry(batch[i])])
    /\ UNCHANGED <<src, env, source, run, batch, client, successful_saves, files,
                   written, temp_copies, now, fn_vars>>

\* The messages without the cap.
LimitedMessagesAll(imessages) == imessages

\* imessages[:100]
LimitedMessages(imessages) ==
    SubSeq(imessages, 1, IF Len(imessages) < MessageCap THEN Len(imessages) ELSE MessageCap)

\* save_imessages_to_supabase and the test in save_imessages_data.
save_imessages_to_supabase ==
    /\ pc = "Persisting" /\ src = "imessage"
    /\ LET limited_messages == LimitedMessages(batch) IN
       BatchWrite(StoreCall(src), [i \in 1..Len(limited_messages) |->
                                IMessageDbEntry(limited_messages[i])])
    /\ UNCHANGED <<src, env, source, run, batch, client, successful_saves, files,
                   written, temp_copies, now, fn_vars>>

RECURSIVE UniqueEntriesKeepLast(_, _)
\* A removal of duplicates that keeps the last entry of each id.
UniqueEntriesKeepLast(db_entries, seen_ids) ==
    IF db_entries = <<>> THEN <<>>
    ELSE IF \E i \in 2..Len(db_entries) : db_entries[i].id = Head(db_entries).id
         THEN UniqueEntriesKeepLast(Tail(db_entries), seen_ids)
         ELSE << Head(db_entries) >> \o UniqueEntriesKeepLast(Tail(db_entries), seen_ids)

RECURSIVE UniqueEntriesKeepNull(_, _)
\* A removal of duplicates that lets every entry without an id through.
UniqueEntriesKeepNull(db_entries, seen_ids) ==
    IF db_entries = <<>> THEN <<>>
    ELSE IF Head(db_entries).id = PyNone \/ Head(db_entries).id \notin seen_ids
         THEN << Head(db_entries) >>
              \o UniqueEntriesKeepNull(Tail(db_entries),
                                       seen_ids \cup {Head(db_entries).id})
         ELSE UniqueEntriesKeepNull(Tail(db_entries), seen_ids)

RECURSIVE UniqueEntries(_, _)
\* save_whatsapp_messages_to_supabase, "Remove duplicates within the batch
\* based on ID": the entries whose id was not seen before.
UniqueEntries(db_entries, seen_ids) ==
    IF db_entries = <<>> THEN <<>>
    ELSE IF Head(db_entries).id \notin seen_ids
         THEN << Head(db_entries) >>
              \o UniqueEntries(Tail(db_entries), seen_ids \cup {Head(db_entries).id})
         ELSE UniqueEntries(Tail(db_entries), seen_ids)

\* save_whatsapp_messages_to_supabase and the test in save_whatsapp_messages_data.
save_whatsapp_messages_to_supabase ==
    /\ pc = "Persisting" /\ src = "whatsapp"
    /\ LET db_entries == [i \in 1..Len(batch) |-> WhatsAppDbEntry(batch[i])] IN
       BatchWrite(StoreCall(src), UniqueEntries(db_entries, {}))
    /\ UNCHANGED <<src, env, source, run, batch, client, successful_saves, files,
                   written, temp_copies, now, fn_vars>>

RECURSIVE EmailLoopNewestFirst(_, _, _, _, _, _)
\* The loop with failed_emails.insert(0, email_data): the failed emails
\* come out newest first.
EmailLoopNewestFirst(i, tbl, ops, saves, failed_emails, outs) ==
    IF i > Len(batch)
    THEN [raised |-> FALSE, table |-> tbl, ops |-> ops,
          successful_saves |-> saves, failed_emails |-> failed_emails]
    ELSE LET db_email == EmailDbEntry(batch[i])
             ops2 == Append(ops, <<StoreCall(src), << db_email >> >>)
         IN IF outs[i] = "raise" \/ ~InsertAllowed(src, tbl, << db_email >>)
            THEN [raised |-> TRUE, table |-> tbl, ops |-> ops2,
                  successful_saves |-> saves, failed_emails |-> failed_emails]
            ELSE IF outs[i] = "data"
            THEN EmailLoopNewestFirst(i + 1, Inserted(tbl, << db_email >>),
                                      ops2, saves + 1, failed_emails, outs)
            ELSE EmailLoopNewestFirst(i + 1, tbl, ops2, saves,
                                      << batch[i] >> \o failed_emails, outs)

RECURSIVE EmailLoop(_, _, _, _, _, _)
\* save_emails_data, the loop: email i is written by save_email_to_supabase
\* with the store answering outs[i]; a raise leaves the loop.
EmailLoop(i, tbl, ops, saves, failed_emails, outs) ==
    IF i > Len(batch)
    THEN [raised |-> FALSE, table |-> tbl, ops |-> ops,
          successful_saves |-> saves, failed_emails |-> failed_emails]
    ELSE LET db_email == EmailDbEntry(batch[i])
             ops2 == Append(ops, <<StoreCall(src), << db_email >> >>)
             allowed == IF StoreCall(src) = "insert"
                        THEN InsertAllowed(src, tbl, << db_email >>)
                        ELSE UpsertAllowed(src, << db_email >>)
         IN IF outs[i] = "raise" \/ ~allowed
            THEN [raised |-> TRUE, table |-> tbl, ops |-> ops2,
                  successful_saves |-> saves, failed_emails |-> failed_emails]
            ELSE IF outs[i] = "data"
            THEN EmailLoop(i + 1,
                           IF StoreCall(src) = "insert" THEN Inserted(tbl, << db_email >>)
                           ELSE Upserted(tbl, << db_email >>),
                           ops2, saves + 1,
                           failed_emails, outs)
            ELSE EmailLoop(i + 1, tbl, ops2, saves,
                           Append(failed_emails, batch[i]), outs)

\* save_emails_data with a client: the loop, then the backup of the
\* failed emails.
save_email_to_supabase ==
    /\ pc = "Persisting" /\ src = "email"
    /\ \E outs \in [1..Len(batch) -> {"raise", "empty", "data"}] :
        LET r == EmailLoop(1, table, remote_ops, 0, <<>>, outs) IN
        /\ remote_ops' = r.ops
        /\ table' = r.table
        /\ successful_saves' = r.successful_saves
        /\ IF r.raised
           THEN Propagate /\ UNCHANGED <<file_prefix, to_save>>
           ELSE IF r.failed_emails # <<>>
           THEN pc' = "WriteLocal" /\ file_prefix' = "failed_"
                /\ to_save' = r.failed_emails /\ UNCHANGED outcome
           ELSE pc' = "Done" /\ outcome' = "remote_success"
                /\ UNCHANGED <<file_prefix, to_save>>
    /\ UNCHANGED <<src, env, source, run, batch, client, accepted, files,
                   written, temp_copies, now, fn_vars>>

\* The filename_prefix and data_dir each script passes to save_data_to_json.
FilenamePrefix(s) ==
    CASE s = "browser" -> "chrome_history" [] s = "calendar" -> "calendar_events"
      [] s = "email" -> "recent_emails" [] s = "imessage" -> "imessages"
      [] s = "whatsapp" -> "whatsapp_messages"

DataDir(s) ==
    CASE s = "browser" -> "browser_history/data" [] s = "calendar" -> "calendar/data"
      [] s = "email" -> "gmail/data" [] s = "imessage" -> "imessage/data"
      [] s = "whatsapp" -> "whatsapp/data"

\* save_data_to_json: the file name, from the arguments and the clock.
FileName(data, filename_prefix, data_dir, prefix, t) ==
    [data_dir |-> data_dir, file_prefix |-> prefix,
     filename_prefix |-> filename_prefix, count |-> Len(data), timestamp |-> t]

\* save_data_to_json(to_save, ..., file_prefix): open(filename, "w")
\* replaces a file of the same name.
save_data_to_json ==
    /\ pc = "WriteLocal"
    /\ LET filename == FileName(to_save, FilenamePrefix(src), DataDir(src),
                                file_prefix, now) IN
       /\ files' = {f \in files : f.name # filename}
                   \cup {[name |-> filename, data |-> to_save, mtime |-> now]}
       /\ written' = Append(written, filename)
    /\ outcome' = IF file_prefix = "" THEN "local" ELSE "local_failed"
    /\ pc' = "Done"
    /\ UNCHANGED <<src, env, source, run, batch, client, remote_ops, accepted,
                   successful_saves, table, file_prefix, to_save, temp_copies,
                   now, fn_vars>>

\* The script is invoked again: nothing of the previous run is kept but
\* the store, the local files and the clock.
NextRun ==
    /\ pc \in {"Done", "Raised"}
    /\ run < MaxRuns
    /\ run' = run + 1
    /\ pc' = "Idle"
    /\ batch' = <<>>
    /\ client' = "None"
    /\ remote_ops' = <<>>
    /\ accepted' = -1
    /\ successful_saves' = 0
    /\ written' = <<>>
    /\ file_prefix' = ""
    /\ to_save' = <<>>
    /\ outcome' = "pending"
    /\ UNCHANGED <<src, env, source, table, files, temp_copies, now, fn_vars>>

\* A second passes.
Tick ==
    /\ pc \notin {"Done", "Raised"}
    /\ now < MaxClock
    /\ now' = now + 1
    /\ UNCHANGED <<src, env, source, pc, run, batch, client, remote_ops, accepted,
                   successful_saves, table, files, written, file_prefix, to_save,
                   temp_copies, outcome, fn_vars>>

Next ==
    \/ StartRun
    \/ extract_chrome_history
    \/ get_recent_events
    \/ get_recent_emails
    \/ extract_imessage_data
    \/ load_whatsapp_messages
    \/ get_supabase_client
    \/ save_browser_history_to_supabase
    \/ save_calendar_events_to_supabase
    \/ save_email_to_supabase
    \/ save_imessages_to_supabase
    \/ save_whatsapp_messages_to_supabase
    \/ save_data_to_json
    \/ NextRun
    \/ Tick

Spec == Init /\ [][Next]_vars
(***************************************************************************)
(* The sanitization of one record, on inputs around the limits.            *)
(***************************************************************************)
\* Values of a field bounded by L: None, strings of one kind of character
\* with lengths around L, and two mixed strings.
SanInputs(L) ==
    {None}
    \cup {Rep(k, n) : k \in {"a", "e", "w"},
                      n \in {0, 1, L \div 3 + 1} \cup ((L - Over) .. (L + Over))}
    \cup {StrConcat(Rep("a", L - 1), Rep("w", j)) : j \in 1..Over}
    \cup {StrConcat(Rep("w", 1), Rep(".", L + j)) : j \in 0..Over}

\* The records handed to save_*_to_supabase, for each source with bounded
\* fields.  Chrome's urls.url is never NULL.
SanRecords(s) ==
    CASE s = "browser" ->
            {[url |-> u, title |-> t, visit_count |-> 1, timestamp |-> << 7 >>] :
                u \in SanInputs(UrlLimit) \ {None}, t \in SanInputs(TitleLimit)}
      [] s = "calendar" ->
            {[k \in DOMAIN CalendarRecord([id |-> "e1"], 0) |->
                CASE k = "summary" -> a [] k = "description" -> b
                  [] k = "location" -> c
                  [] OTHER -> CalendarRecord([id |-> "e1"], 0)[k]] :
                a \in SanInputs(SummaryLimit), b \in SanInputs(DescriptionLimit),
                c \in SanInputs(LocationLimit)}
      [] s = "imessage" ->
            {[contact |-> c, text |-> t, service |-> "iMessage", account |-> "",
              is_from_me |-> FALSE, timestamp |-> 1] :
                c \in SanInputs(ContactLimit), t \in SanInputs(TextLimit)}
      [] s = "whatsapp" ->
            {[id |-> "X", from_name |-> a, chat_name |-> b, text |-> c] :
                a \in SanInputs(FromNameLimit), b \in SanInputs(ChatNameLimit),
                c \in SanInputs(TextLimit)}

\* The store entry each source builds from one record.
DbEntry(s, rec, t) ==
    CASE s = "browser" -> BrowserDbEntry(rec, t)
      [] s = "calendar" -> CalendarDbEntry(rec)
      [] s = "imessage" -> IMessageDbEntry(rec)
      [] s = "whatsapp" -> WhatsAppDbEntry(rec)
      [] s = "email" -> EmailDbEntry(rec)

InitSanitize ==
    /\ src \in Sources \ {"email"}
    /\ env \in {e \in PipelineEnvs : ~NotConfigured(e)}
    /\ source = [status |-> "ok", items |-> <<>>]
    /\ PipelineStart
    /\ fn = "sanitize"
    /\ arg \in SanRecords(src)
    /\ out = <<>>

\* The loop body of save_*_to_supabase is applied to the record.
Sanitize ==
    /\ fn = "sanitize"
    /\ fn' = "sanitized"
    /\ out' = DbEntry(src, arg, now)
    /\ UNCHANGED <<arg, pipe_vars>>

NextSanitize == Sanitize

SpecSanitize == InitSanitize /\ [][NextSanitize]_vars

(***************************************************************************)
(* The extraction of a message body, on part trees of two levels.          *)
(***************************************************************************)
PlainPart(d) == [mimeType |-> "text/plain", body |-> [size |-> 1, data |-> d]]
HtmlPart(d) == [mimeType |-> "text/html", body |-> [size |-> 1, data |-> d]]
MultiPart(ps) == [mimeType |-> "multipart/alternative", body |-> [size |-> 0],
                  parts |-> ps]

\* The parts inside a multipart part.
InnerParts == {PlainPart("aGk="), PlainPart("Ynll"), HtmlPart("PGI-aGk8L2I-")}

\* A multipart/alternative nested inside another multipart part.
NestedAlternative ==
    MultiPart(<< MultiPart(<< PlainPart("aGk="), HtmlPart("PGI-aGk8L2I-") >>) >>)

\* The parts at the top of a payload: leaves with and without data, with
\* data that does not decode, multipart parts, and a multipart nested two
\* levels down.  Only container parts have parts of their own: the API
\* gives a text part none.
TopParts ==
    {PlainPart("aGk="), HtmlPart("PGk-YnllPC9pPg=="), HtmlPart("aGk"),
     [mimeType |-> "text/plain", body |-> [size |-> 0]],
     NestedAlternative}
    \cup {MultiPart(ps) : ps \in SeqsUpTo(InnerParts, MaxParts)}

Payloads ==
    {[mimeType |-> "multipart/mixed", parts |-> ps] : ps \in SeqsUpTo(TopParts, MaxParts)}
    \cup {[mimeType |-> "text/plain", body |-> [size |-> 1, data |-> "aGk="]],
          [mimeType |-> "text/html", body |-> [size |-> 1, data |-> "PGI-aGk8L2I-"]],
          [mimeType |-> "text/html", body |-> [size |-> 0]],
          [mimeType |-> "text/plain"]}

InitBody ==
    /\ src = "email"
    /\ env \in {e \in PipelineEnvs : ~NotConfigured(e)}
    /\ source = [status |-> "ok", items |-> <<>>]
    /\ PipelineStart
    /\ fn = "extract_body"
    /\ arg \in Payloads
    /\ out = [text |-> "", html |-> ""]

\* extract_email_data computes body_data from the payload.
ExtractBody ==
    /\ fn = "extract_body"
    /\ fn' = "extracted_body"
    /\ out' = extract_body(arg)
    /\ UNCHANGED <<arg, pipe_vars>>

NextBody == ExtractBody

SpecBody == InitBody /\ [][NextBody]_vars

(***************************************************************************)
(* get_supabase_client under every environment.                            *)
(***************************************************************************)
InitConfigure ==
    /\ src \in Sources
    /\ env \in Envs
    /\ source = [status |-> "ok", items |-> <<>>]
    /\ pc = "Configuring"
    /\ run = 1
    /\ batch = <<>>
    /\ client = "None"
    /\ remote_ops = <<>>
    /\ accepted = -1
    /\ successful_saves = 0
    /\ table = <<>>
    /\ files = {}
    /\ written = <<>>
    /\ file_prefix = ""
    /\ to_save = <<>>
    /\ temp_copies = 0
    /\ now = 0
    /\ outcome = "pending"
    /\ FnIdle

NextConfigure == get_supabase_client

SpecConfigure == InitConfigure /\ [][NextConfigure]_vars
(***************************************************************************)
(* Claims.                                                                 *)
(***************************************************************************)
\* The value of field f in the record handed to sanitization.
InputField(rec, f) == Get(rec, f, None)

\* s without its last three periods (s ends with "...").
StripEllipsis(s) ==
    IF s[Len(s)][2] = 3 THEN SubSeq(s, 1, Len(s) - 1)
    ELSE [s EXCEPT ![Len(s)] = <<".", s[Len(s)][2] - 3>>]

\* y is a proper prefix of x followed by "...".
IsCutOf(y, x) ==
    /\ EndsWithEllipsis(y)
    /\ IsStrPrefix(StripEllipsis(y), x)
    /\ StrLen(StripEllipsis(y)) < StrLen(x)

\* C3: after sanitization every size-bounded field of every source's entry
\* has a UTF-8 byte length of at most its limit (url 2000; title, summary,
\* location, contact, from_name, chat_name 500; description, text 1000).
C3_SanitizedWithinLimit ==
    fn = "sanitized" =>
        \A fl \in BoundedFields(src) : ByteLen(out[fl[1]]) <= fl[2]

\* C4: a bounded field whose input exceeds its limit in UTF-8 bytes comes
\* out as a cut prefix of the input ending with "..."; any other input
\* comes out unchanged, None as the empty string.
C4_CutOrUnchanged ==
    fn = "sanitized" =>
        \A fl \in BoundedFields(src) :
            LET x == InputField(arg, fl[1])
                y == out[fl[1]]
            IN IF x # None /\ ByteLen(x) > fl[2]
               THEN IsCutOf(y, x)
               ELSE y = OrEmpty(x)
\* The parts of a payload, as the list extract_email_data starts from: its
\* parts, or the payload itself when it has none.
TopLevel(payload) ==
    IF "parts" \in DOMAIN payload THEN payload.parts ELSE << payload >>

RECURSIVE DepthFirst(_)
\* Every part of the tree under `parts`, depth first, a part before its
\* own parts.
DepthFirst(parts) ==
    IF parts = <<>> THEN <<>>
    ELSE << Head(parts) >>
         \o DepthFirst(Get(Head(parts), "parts", <<>>))
         \o DepthFirst(Tail(parts))

RECURSIVE WalkOrder(_)
\* The same, not going below a text/plain or text/html part.
WalkOrder(parts) ==
    IF parts = <<>> THEN <<>>
    ELSE << Head(parts) >>
         \o (IF Get(Head(parts), "mimeType", "") \in {"text/plain", "text/html"}
             THEN <<>>
             ELSE WalkOrder(Get(Head(parts), "parts", <<>>)))
         \o WalkOrder(Tail(parts))

\* The indices of the parts of the given type that carry inline data.
WithData(list, mime) ==
    {i \in 1..Len(list) :
        /\ Get(list[i], "mimeType", "") = mime
        /\ "data" \in DOMAIN Get(list[i], "body", [size |-> 0])}

Min(S) == CHOOSE x \in S : \A y \in S : x <= y
Max(S) == CHOOSE x \in S : \A y \in S : y <= x

\* The decoded data of the first such part of the list, "" when none.
FirstDecoded(list, mime) ==
    IF WithData(list, mime) = {} THEN ""
    ELSE decode_email_content(list[Min(WithData(list, mime))].body.data)

\* The decoded data of the last such part of the list, "" when none.
LastDecoded(list, mime) ==
    IF WithData(list, mime) = {} THEN ""
    ELSE decode_email_content(list[Max(WithData(list, mime))].body.data)

KeyPresent(e) ==
    e.SUPABASE_ANON_KEY \notin {PyNone, ""} \/ e.SUPABASE_KEY \notin {PyNone, ""}

UrlPresent(e) == e.SUPABASE_URL \notin {PyNone, ""}

\* C9: get_supabase_client returns a handle if and only if the URL and a
\* key are present and the handle can be constructed, and returns None,
\* never raising, in every other case.
C9_HandleOrNoneNeverRaises ==
    pc # "Configuring" =>
        /\ outcome \notin {"raised", "error_logged"}
        /\ client = "client" => UrlPresent(env) /\ KeyPresent(env)
        /\ ~(UrlPresent(env) /\ KeyPresent(env)) => client = "None"
\* The run has ended, by returning or by an exception reaching its caller.
Ended == pc \in {"Done", "Raised"}

\* The files of this run, looked up by the names it wrote.
FilesWritten == {f \in files : \E i \in 1..Len(written) : written[i] = f.name}

\* The rows of the write requests this run submitted to the store.
SubmittedRows ==
    UNION {{remote_ops[i][2][j] : j \in 1..Len(remote_ops[i][2])} :
              i \in {k \in 1..Len(remote_ops) : remote_ops[k][1] \in {"insert", "upsert"}}}

\* C1: whenever a handle exists and the remote write fails in any way (it
\* raises, or returns with no accepted row), the run writes the batch to a
\* local file whose name carries the "failed_" prefix.
C1_FailedWriteFallsBack ==
    (Ended /\ client = "client" /\ outcome # "remote_success") =>
        /\ Len(written) = 1
        /\ written[1].file_prefix = "failed_"
        /\ \E f \in FilesWritten : f.data = to_save

\* C2: no run lets a fault reach its caller; every run that ends reports
\* remote success, a local file, or no data.
C2_NoUnhandledFault ==
    /\ pc # "Raised"
    /\ pc = "Done" => outcome \in {"remote_success", "local", "local_failed", "no_data"}

\* No endpoint URL or no access key is configured.
NoCredentials == ~UrlPresent(env) \/ ~KeyPresent(env)

\* The extracted record i has a bounded field longer than its limit.
OverLong(i) ==
    \E fl \in BoundedFields(src) :
        /\ InputField(batch[i], fl[1]) # None
        /\ StrLen(InputField(batch[i], fl[1])) > fl[2]

PendingRows ==
    CASE src = "email" -> << EmailDbEntry(batch[1]) >>
      [] src = "whatsapp" ->
            UniqueEntries([i \in 1..Len(batch) |-> WhatsAppDbEntry(batch[i])], {})
      [] src = "imessage" ->
            [i \in 1..Len(LimitedMessages(batch)) |-> IMessageDbEntry(batch[i])]
      [] OTHER -> [i \in 1..Len(batch) |-> DbEntry(src, batch[i], now)]

\* C11: browser-history extraction returns exactly the rows of the source
\* whose last-visit time is strictly positive, one entry per such row,
\* most recent first; a row with last-visit time zero is never in it.
C11_PositiveRowsMostRecentFirst ==
    (src = "browser" /\ source.status = "ok" /\ pc \notin {"Idle", "Extracting"}) =>
        LET rows == source.items
            pos == {i \in 1..Len(rows) : rows[i].last_visit_time > 0}
        IN /\ Len(batch) = Cardinality(pos)
           /\ \A k \in 1..Len(batch) : batch[k].timestamp # NoTime
           /\ \E p \in [1..Len(batch) -> pos] :
                /\ \A k, l \in 1..Len(batch) : k # l => p[k] # p[l]
                /\ \A k \in 1..Len(batch) :
                     /\ batch[k].url = rows[p[k]].url
                     /\ batch[k].visit_count = rows[p[k]].visit_count
                     /\ batch[k].timestamp
                          = << rows[p[k]].last_visit_time - ChromeEpochDays >>
                /\ \A k, l \in 1..Len(batch) :
                     k < l => rows[p[k]].last_visit_time > rows[p[l]].last_visit_time

\* C11 witness: three rows with last-visit times [0, T1, T2], T1 < T2, have
\* been extracted as two entries, the T2 entry first.
C11_Witness ==
    /\ src = "browser" /\ source.status = "ok" /\ pc = "Configuring"
    /\ Len(source.items) = 3
    /\ source.items[1].last_visit_time = 0
    /\ 0 < source.items[2].last_visit_time
    /\ source.items[2].last_visit_time < source.items[3].last_visit_time
    /\ Len(batch) = 2
    /\ batch[1].url = source.items[3].url
    /\ batch[2].url = source.items[2].url

\* C12: whenever a call of browser-history extraction has returned or
\* raised, the temporary copy of the history database it made no longer
\* exists: no temporary copy is on disk outside the call.
C12_TempCopyRemoved == temp_copies = 0

\* The rows of the batch writes (insert or upsert) of this run, in order.
WriteOps == SelectSeq(remote_ops, LAMBDA o : o[1] \in {"insert", "upsert"})

\* C13: for device-local messages the rows submitted to the remote insert
\* are exactly the first min(N, 100) of the N extracted messages, in
\* extraction order.
C13_FirstHundredSubmitted ==
    src = "imessage" =>
        \A o \in 1..Len(WriteOps) :
            LET rows == WriteOps[o][2]
                n == Min({Len(batch), MessageCap})
            IN /\ WriteOps[o][1] = "insert"
               /\ Len(rows) = n
               /\ \A j \in 1..n :
                    /\ rows[j] = IMessageDbEntry(batch[j])
                    /\ rows[j].timestamp = batch[j].timestamp

\* C13 witness: more than 100 messages were extracted and the insert was
\* submitted with exactly 100 rows.
C13_Witness ==
    /\ src = "imessage"
    /\ Len(batch) > MessageCap
    /\ Len(WriteOps) = 1
    /\ Len(WriteOps[1][2]) = MessageCap

\* The id of a record, None when it has none.
IdOf(r) == Get(r, "id", PyNone)

\* recs holds exactly one record for each id occurring in loaded.
OnePerId(recs, loaded) ==
    /\ \A i, j \in 1..Len(recs) : i # j => IdOf(recs[i]) # IdOf(recs[j])
    /\ {IdOf(recs[i]) : i \in 1..Len(recs)} = {IdOf(loaded[i]) : i \in 1..Len(loaded)}

\* C14: for externally-produced messages, what is handed to persistence
\* holds exactly one record for every id occurring in the loaded file, in
\* the rows submitted to the store and in the local file alike.
C14_PersistedIdsUnique ==
    src = "whatsapp" =>
        /\ \A o \in 1..Len(WriteOps) : OnePerId(WriteOps[o][2], batch)
        /\ \A f \in FilesWritten : OnePerId(f.data, batch)

\* The record carries an extraction_date or a saved_at that is a time.
Stamped(rec) ==
    \E k \in {"extraction_date", "saved_at"} \cap DOMAIN rec : rec[k] \in Nat

\* C15: every record persisted by any source, in a row submitted to the
\* store or in a local file, carries a non-null extraction_date / saved_at.
C15_PersistedRecordsStamped ==
    /\ \A o \in 1..Len(WriteOps) :
          \A j \in 1..Len(WriteOps[o][2]) : Stamped(WriteOps[o][2][j])
    /\ \A f \in FilesWritten : \A j \in 1..Len(f.data) : Stamped(f.data[j])

\* How many records the run submitted to the store, and how many of them
\* the store reported as accepted (emails are written one by one).
SubmittedCount == IF src = "email" THEN Len(WriteOps) ELSE Len(WriteOps[1][2])
AcceptedCount == IF src = "email" THEN successful_saves ELSE accepted

\* C16: a remote write that returns with fewer than all N submitted records
\* accepted ends in a fallback of the entire batch: the failure-prefixed
\* local file holds all N records and the run is not reported as a plain
\* remote success.
C16_PartialWriteFallsBackWhole ==
    (/\ pc = "Done" /\ outcome # "error_logged"
     /\ Len(WriteOps) > 0
     /\ AcceptedCount < SubmittedCount) =>
        /\ outcome = "local_failed"
        /\ \E f \in FilesWritten : f.name.file_prefix = "failed_" /\ f.data = batch

\* The run has a handle and a write of it came back without rows.
WriteFailed ==
    /\ client = "client"
    /\ Len(WriteOps) > 0
    /\ IF src = "email" THEN successful_saves < Len(WriteOps) ELSE accepted = 0

\* C17: a local file written by a run carries the fail prefix if and only
\* if the run had a remote handle and its remote write failed; a file
\* written without a handle never carries it; and no run writes both a
\* prefixed and an unprefixed file.
C17_PrefixIffFailedWrite ==
    /\ Len(written) <= 1
    /\ \A f \in FilesWritten :
          /\ f.name.file_prefix \in {"", "failed_"}
          /\ f.name.file_prefix = "failed_" <=> WriteFailed
          /\ client = "None" => f.name.file_prefix = ""
    /\ pc = "WriteLocal" => (file_prefix = "failed_" <=> WriteFailed)

\* C17 witness: a run with a handle whose write of a non-empty batch came
\* back without rows has written its file, with the prefix.
C17_Witness ==
    /\ pc = "Done" /\ client = "client" /\ batch # <<>>
    /\ WriteFailed
    /\ \E f \in FilesWritten : f.name.file_prefix = "failed_"

\* Every row submitted is the sanitized store entry of an extracted record
\* (the j-th row that of the j-th record or of a later one).
SubmittedSanitized ==
    \A o \in 1..Len(WriteOps) : \A j \in 1..Len(WriteOps[o][2]) :
        \E i \in j..Len(batch) : \E t \in 0..now :
            WriteOps[o][2][j] = DbEntry(src, batch[i], t)

\* No record is submitted twice: the batch sources make one write of at
\* most the extracted records, the email source one write for each email.
SubmittedOnce ==
    IF src = "email"
    THEN /\ Len(WriteOps) <= Len(batch)
         /\ \A o \in 1..Len(WriteOps) : WriteOps[o][2] = << EmailDbEntry(batch[o]) >>
    ELSE /\ Len(WriteOps) <= 1
         /\ \A o \in 1..Len(WriteOps) : Len(WriteOps[o][2]) <= Len(batch)

\* The positions of a run are passed in order: nothing is submitted or
\* written before the extraction and the configuration are over, and a
\* written file ends the run.
InOrder ==
    /\ pc \in {"Idle", "Extracting"} => batch = <<>> /\ remote_ops = <<>> /\ written = <<>>
    /\ pc = "Configuring" => remote_ops = <<>> /\ written = <<>>
    /\ pc \in {"Persisting", "WriteLocal"} => written = <<>>
    /\ pc = "Persisting" => client = "client" /\ WriteOps = <<>>
    /\ written # <<>> => pc = "Done"

\* The place of a position in a run; a run stops at Done or where an
\* exception left it.
Rank(p) ==
    CASE p = "Idle" -> 0 [] p = "Extracting" -> 1 [] p = "Configuring" -> 2
      [] p = "Persisting" -> 3 [] p = "WriteLocal" -> 4
      [] p \in {"Done", "Raised"} -> 5

\* A step that changes the position moves the run forward, or starts the
\* next run from a run that has stopped.
MovesForward ==
    pc' # pc =>
        \/ run' = run /\ Rank(pc') > Rank(pc)
        \/ run' = run + 1 /\ pc' = "Idle" /\ Rank(pc) = 5

AppendOnly == src \in {"browser", "imessage"}

\* The step is a run's write, accepted whole by the store.
WholeWriteAccepted ==
    /\ pc = "Persisting" /\ pc' = "Done" /\ outcome' = "remote_success"
    /\ accepted' = Len(remote_ops'[Len(remote_ops')][2])

\* A successful run of an append-only source over N records (N <= 100 for
\* messages) adds exactly its N rows to the table, whatever the table holds.
AppendsBatch ==
    (AppendOnly /\ WholeWriteAccepted /\ Len(batch) <= MessageCap) =>
        LET rows == remote_ops'[Len(remote_ops')][2] IN
        /\ Len(rows) = Len(batch)
        /\ Len(table') = Len(table) + Len(batch)
        /\ table' = table \o rows

\* C19: the append-only sources (browser history, device-local messages) are
\* written with insert only and without a key, so every successful run over
\* N records adds N rows: after k successful runs over the same batch the
\* table holds k*N rows from it.
C19_SuccessfulRunsAppend ==
    /\ [](AppendOnly =>
            /\ \A o \in 1..Len(WriteOps) :
                  /\ WriteOps[o][1] = "insert"
                  /\ \A j \in 1..Len(WriteOps[o][2]) : "id" \notin DOMAIN WriteOps[o][2][j]
            /\ Len(table) <= run * Len(source.items))
    /\ [][AppendsBatch]_vars

\* C19 witness: the second run over the same N > 0 records has succeeded
\* like the first, and the table holds 2*N rows.
C19_Witness ==
    /\ AppendOnly /\ run = 2 /\ pc = "Done" /\ outcome = "remote_success"
    /\ batch # <<>> /\ Len(batch) <= MessageCap
    /\ accepted = Len(batch)
    /\ Len(table) = 2 * Len(batch)

\* The candidate of the file discovery is a file save_data_to_json wrote.
PipelineWritten(c) ==
    \E f \in files : MatchesPattern(f) /\ f.data = c.data /\ f.mtime = c.mtime

\* C20: no adapter reads back the output of a prior run: the file the
\* externally-produced-message adapter's discovery selects (the most
\* recently modified candidate) is never one the pipeline itself wrote.
C20_NoReadBack ==
    (src = "whatsapp" /\ pc = "Extracting") =>
        \A c \in WhatsAppFiles :
            (\A g \in WhatsAppFiles : g.mtime <= c.mtime) => ~PipelineWritten(c)

\* The listed messages that are fetched and carry every expected field.
Normalizable(messages) ==
    SelectSeq(messages, LAMBDA m : ~EmailHttpError(m) /\ ~EmailKeyError(m))

\* C21: a failure of any kind while fetching or normalizing one message
\* skips only that message: the extracted emails are exactly the other
\* listed messages, in order, and they go on to persistence.
C21_OneFailureSkipsOneMessage ==
    (src = "email" /\ source.status = "ok" /\ pc \notin {"Idle", "Extracting"}) =>
        LET good == Normalizable(source.items) IN
        /\ Len(batch) = Len(good)
        /\ \A i \in 1..Len(batch) : batch[i].id = good[i].id
        /\ good # <<>> => outcome # "no_data"

\* The decoded data of the one part of the given type in the list.
OnlyDecoded(list, mime) ==
    decode_email_content(list[CHOOSE i \in WithData(list, mime) : TRUE].body.data)

\* The list holds exactly one text/plain part and exactly one text/html
\* part with inline data.
OneOfEach(list) ==
    /\ Cardinality(WithData(list, "text/plain")) = 1
    /\ Cardinality(WithData(list, "text/html")) = 1

\* C22: the walk reaches parts at any nesting depth: for every part tree
\* holding exactly one text/plain and exactly one text/html part with
\* inline data, wherever they sit in the tree, body.text and body.html are
\* their decoded data.
C22_ReachesAnyPart ==
    (fn = "extracted_body" /\ OneOfEach(DepthFirst(TopLevel(arg)))) =>
        /\ out.text = OnlyDecoded(DepthFirst(TopLevel(arg)), "text/plain")
        /\ out.html = OnlyDecoded(DepthFirst(TopLevel(arg)), "text/html")

\* C22 witness: the multipart/alternative nested two levels down has been
\* walked and has given text "hi" and html "<b>hi</b>".
C22_Witness ==
    /\ fn = "extracted_body"
    /\ "parts" \in DOMAIN arg /\ arg.parts = << NestedAlternative >>
    /\ out.text = "hi" /\ out.html = "<b>hi</b>"

\* The calendar records persisted by this run, each with the event of the
\* API it was made from: the rows submitted and the records of the files.
PersistedEvents ==
    {<<WriteOps[o][2][i], source.items[i]>> :
        o \in 1..Len(WriteOps), i \in 1..Len(source.items)}
    \cup UNION {{<<f.data[i], source.items[i]>> : i \in 1..Len(f.data)} :
                  f \in FilesWritten}

\* C23: in every persisted calendar record, in a row for the store or in a
\* local file, an absent summary, description, location or html_link is the
\* empty string and an absent creator, organizer, attendees or recurrence
\* is null, never an empty object or an empty list.
C23_AbsentFieldDefaults ==
    src = "calendar" =>
        \A p \in PersistedEvents :
            LET rec == p[1]
                event == p[2]
            IN /\ "summary" \notin DOMAIN event => rec.summary = EmptyStr
               /\ "description" \notin DOMAIN event => rec.description = EmptyStr
               /\ "location" \notin DOMAIN event => rec.location = EmptyStr
               /\ "htmlLink" \notin DOMAIN event => rec.html_link = ""
               /\ "creator" \notin DOMAIN event => rec.creator = PyNone
               /\ "organizer" \notin DOMAIN event => rec.organizer = PyNone
               /\ "attendees" \notin DOMAIN event => rec.attendees = PyNone
               /\ "recurrence" \notin DOMAIN event => rec.recurrence = PyNone

\* The name the pending save_data_to_json call will write to.
PendingFileName ==
    FileName(to_save, FilenamePrefix(src), DataDir(src), file_prefix, now)

\* C24: save_data_to_json writes the full record sequence as one file whose
\* name carries the directory, the fail prefix, the source, the count of
\* records written and the time; and any two calls produce distinct names,
\* so a call never writes to the name of an earlier local file.
C24_DistinctFileNames ==
    /\ \A f \in files :
          /\ f.name.count = Len(f.data)
          /\ f.name.data_dir = DataDir(src)
          /\ f.name.filename_prefix = FilenamePrefix(src)
    /\ pc = "WriteLocal" => \A f \in files : f.name # PendingFileName

\* The sanitized input of the dedup: the store entry of every loaded record.
SanitizedInput == [i \in 1..Len(batch) |-> WhatsAppDbEntry(batch[i])]

\* The positions of the sanitized input that hold the first entry of an id.
FirstOfId ==
    {i \in 1..Len(batch) :
        \A j \in 1..(i - 1) : SanitizedInput[j].id # SanitizedInput[i].id}

\* The k-th smallest element of a set of numbers.
Nth(S, k) == CHOOSE i \in S : Cardinality({j \in S : j <= i}) = k

\* C25: the dedup of externally-produced messages keeps, for each id, the
\* first entry with that id in input order, and keeps the kept entries in
\* their order: what is submitted is that subsequence of the sanitized input.
C25_DedupKeepsFirstInOrder ==
    src = "whatsapp" =>
        \A o \in 1..Len(WriteOps) :
            LET rows == WriteOps[o][2] IN
            /\ Len(rows) = Cardinality(FirstOfId)
            /\ \A k \in 1..Len(rows) : rows[k] = SanitizedInput[Nth(FirstOfId, k)]

\* C25 witness: two different records with the same id were loaded and the
\* upsert was submitted with the first of them only.
C25_Witness ==
    /\ src = "whatsapp" /\ Len(batch) = 2
    /\ "id" \in DOMAIN batch[1] /\ "id" \in DOMAIN batch[2]
    /\ batch[1].id = batch[2].id
    /\ WhatsAppDbEntry(batch[1]) # WhatsAppDbEntry(batch[2])
    /\ Len(WriteOps) = 1
    /\ WriteOps[1][2] = << WhatsAppDbEntry(batch[1]) >>

\* The positions of the loaded records that have no id (absent or null).
WithoutId == {i \in 1..Len(batch) : IdOf(batch[i]) = PyNone}

\* C26: the dedup treats a missing id as the one key null: of all loaded
\* records without an id only the first is submitted to the upsert, and the
\* others are dropped from the remote batch.
C26_MissingIdIsOneKey ==
    src = "whatsapp" =>
        \A o \in 1..Len(WriteOps) :
            LET rows == WriteOps[o][2]
                nulls == {k \in 1..Len(rows) : rows[k].id = PyNone}
            IN /\ Cardinality(nulls) = (IF WithoutId = {} THEN 0 ELSE 1)
               /\ \A k \in nulls : rows[k] = WhatsAppDbEntry(batch[Min(WithoutId)])

\* C26 witness: two different records without an id were loaded and the
\* upsert was submitted with the first of them only.
C26_Witness ==
    /\ src = "whatsapp" /\ WithoutId = {1, 2}
    /\ batch[1] # batch[2]
    /\ Len(WriteOps) = 1
    /\ WriteOps[1][2] = << WhatsAppDbEntry(batch[1]) >>

\* C27: a batch write is classified as remote success only when the result
\* of the store carries a non-empty list of accepted rows; so a
\* browser-history or device-local-message run with a handle and zero
\* extracted records, whose write came back, is never reported as remote
\* success and writes a failure-prefixed local file holding zero records.
C27_SuccessNeedsAcceptedRows ==
    src # "email" =>
        /\ outcome = "remote_success" => accepted > 0
        /\ (AppendOnly /\ client = "client" /\ batch = <<>> /\ pc = "WriteLocal") =>
              file_prefix = "failed_" /\ to_save = <<>>
        /\ (AppendOnly /\ client = "client" /\ batch = <<>> /\ pc = "Done") =>
              /\ outcome = "local_failed"
              /\ Len(written) = 1
              /\ \A f \in FilesWritten :
                    /\ f.name.file_prefix = "failed_"
                    /\ f.name.count = 0
                    /\ f.data = <<>>

\* C27 witness: a run with a handle and zero extracted records has ended
\* with its failure-prefixed file of zero records.
C27_Witness ==
    /\ AppendOnly /\ client = "client" /\ batch = <<>> /\ pc = "Done"
    /\ source.status = "ok"
    /\ accepted = 0
    /\ \E f \in FilesWritten : f.name.file_prefix = "failed_" /\ f.name.count = 0

\* The emails of the batch whose row the store holds, and those whose
\* write came back without a row, each in the order of the batch.
SavedEmails == SelectSeq(batch, LAMBDA e : \E k \in 1..Len(table) : table[k] = EmailDbEntry(e))

FailedEmails == SelectSeq(batch, LAMBDA e : \A k \in 1..Len(table) : table[k] # EmailDbEntry(e))

\* The email loop of the run, with a handle, has run to its end.
EmailLoopEnded ==
    /\ src = "email" /\ client = "client"
    /\ pc \in {"WriteLocal", "Done"} /\ outcome # "error_logged"
    /\ Len(WriteOps) > 0

\* C28: email persistence with a handle writes the emails one at a time
\* and accounts for each exactly once: after the loop successful_saves
\* plus the number of failed emails is the number of emails; a
\* failure-prefixed file is written if and only if at least one write
\* returned no accepted row, and it holds exactly the failed emails in
\* their original order.
C28_EachEmailAccountedOnce ==
    EmailLoopEnded =>
        /\ Len(WriteOps) = Len(batch)
        /\ \A i \in 1..Len(batch) :
              WriteOps[i] = <<"insert", << EmailDbEntry(batch[i]) >> >>
        /\ successful_saves = Len(SavedEmails)
        /\ successful_saves + Len(FailedEmails) = Len(batch)
        /\ pc = "WriteLocal" =>
              /\ FailedEmails # <<>>
              /\ file_prefix = "failed_" /\ to_save = FailedEmails
        /\ pc = "Done" =>
              /\ FailedEmails = <<>> <=> FilesWritten = {}
              /\ FailedEmails = <<>> <=> outcome = "remote_success"
              /\ \A f \in FilesWritten :
                    f.name.file_prefix = "failed_" /\ f.data = FailedEmails

\* C28 witness: two emails were written, the first came back without a
\* row and the second with one, and the file holds the first alone.
C28_Witness ==
    /\ EmailLoopEnded /\ pc = "Done"
    /\ Len(batch) = 2
    /\ successful_saves = 1
    /\ FailedEmails = << batch[1] >>
    /\ \E f \in FilesWritten :
          f.name.file_prefix = "failed_" /\ f.data = << batch[1] >>

\* The sources whose records are sanitized into entries for one batch write.
BatchSources == {"browser", "imessage", "whatsapp"}

\* One step of a run leaves the extracted records as they are, hands them
\* whole to the local write, and every file of the run holds them.
RecordsUntouched ==
    src \in BatchSources =>
        /\ pc \in {"Configuring", "Persisting", "WriteLocal"} => batch' = batch
        /\ pc' = "WriteLocal" => to_save' = batch'
        /\ \A f \in files' :
              (\E i \in 1..Len(written') : written'[i] = f.name) =>
                  /\ f.data = batch'
                  /\ f.name.count = Len(batch')

\* C29: sanitization builds new store entries and leaves the extracted
\* records untouched: for browser history, device-local messages and
\* externally-produced messages, the sequence the run returns and the
\* sequence written to a local file equal the extracted sequence in
\* content, order and length, whatever the persistence outcome.
C29_ExtractedRecordsUntouched == [][RecordsUntouched]_vars

\* C29 witness: the store was sent a shortened url, the write came back
\* without rows, and the file of the run holds the record with its url whole.
C29_Witness ==
    /\ src = "browser" /\ pc = "Done" /\ outcome = "local_failed"
    /\ Len(batch) > 0
    /\ Len(WriteOps) = 1
    /\ WriteOps[1][2][1].url # batch[1].url
    /\ \E f \in FilesWritten : f.data = batch /\ f.data[1].url = batch[1].url

\* C6: calendar events, emails and exported messages are written with
\* upsert-by-key: when a run is about to write rows whose ids the table
\* already holds, the store (which enforces the primary key) accepts the
\* write without error and is left with the same number of rows.
C6_RerunIsAccepted ==
    (PrimaryKeyed(src) /\ pc = "Persisting" /\ PyNone \notin Ids(PendingRows)
        /\ Ids(PendingRows) \subseteq Ids(table)) =>
        /\ StoreCall(src) = "upsert"
        /\ UpsertAllowed(src, PendingRows)
        /\ Len(Upserted(table, PendingRows)) = Len(table)

\* C7: when the source is unreachable the extraction returns None, and
\* the run ends without a call on the store and without a local file.
C7_UnreachableEndsQuietly ==
    (source.status = "absent" /\ pc \notin {"Idle", "Extracting"}) =>
        /\ pc = "Done"
        /\ outcome \in {"no_data", "error_logged"}
        /\ remote_ops = <<>>
        /\ written = <<>>

\* C8: when a run ends, every extracted record is in a request submitted
\* to the store or in the local file the run wrote.
C8_AtLeastAttempted ==
    Ended =>
        \A i \in 1..Len(batch) :
            \/ \E t \in 0..MaxClock : DbEntry(src, batch[i], t) \in SubmittedRows
            \/ \E f \in FilesWritten : \E j \in 1..Len(f.data) : f.data[j] = batch[i]
====
